---- MODULE Spec2Model ----
(***************************************************************************)
(* A model of AirCoach's traffic pipeline:                                 *)
(*   - car_traffic/scripts/scan_traffic.py: main, generate_grid,           *)
(*     scan_traffic_grid and fetch_congestion (the grid scanner);          *)
(*   - car_traffic/scripts/visualize_dense_traffic.py:                     *)
(*     interpolate_traffic_idw (k-nearest inverse-distance weighting);     *)
(*   - car_traffic/scripts/visualize_time_machine.py:                      *)
(*     generate_hourly_snapshots, get_time_multiplier and                  *)
(*     get_smooth_gradient_color (the 24 hourly snapshots);                *)
(*   - the two colour mappers, get_traffic_color and                       *)
(*     get_smooth_gradient_color, each on one value;                       *)
(*   - traffic/scripts/traffic_collector_db.py:                            *)
(*     TrafficCollector.collect_all_roads.                                 *)
(*                                                                         *)
(* Numbers.  Python floats are modelled by exact rationals [n, d] in       *)
(* lowest terms with d > 0; where the rounding of a float decides what the *)
(* code does (numpy.arange) they are binary floats of MantissaBits bits,   *)
(* held as the rationals they are.  Speeds are integers (whole multiples   *)
(* of an arbitrary unit).  An optional value is None or Some(x), so that   *)
(* an absent value is never a number.                                      *)
(*                                                                         *)
(* The provider.  A lookup ends in one of five ways: "ok" (HTTP 2xx with a *)
(* JSON object whose speeds are numbers or missing), "rate_limited" (HTTP  *)
(* 429), "http_error" (any other 4xx/5xx), "net_error" (session.get raises *)
(* a requests.RequestException) and "bad_json" (2xx whose body is not      *)
(* JSON: response.json() raises requests' JSONDecodeError, which is a      *)
(* RequestException).                                                      *)
(***************************************************************************)
EXTENDS Integers, Sequences, FiniteSets, TLC

VARIABLES
    cfg,        \* scan_traffic.py's configuration: BBOX, GRID_SPACING, API_KEY
    pc,         \* where the scanner's main() stands
    grid,       \* main's grid: the sequence of <<lat, lon>> of generate_grid
    i,          \* scan_traffic_grid's loop counter (enumerate(grid, 1))
    resp,       \* fetch_congestion's local `response` (NoResp: none yet)
    results,    \* scan_traffic_grid's results list
    log,        \* history: the requests issued and the sleeps taken, in order
    report,     \* what main prints under "Scan Results" (None: not printed)
    saved,      \* the rows written to OUTPUT_FILE (None: nothing written)
    \* visualize_dense_traffic.py, interpolate_traffic_idw
    ipc,        \* where interpolate_traffic_idw stands
    traffic_df, \* its argument traffic_df: rows lat, lon, congestion_factor
    road_coords,\* the midpoints <<lat, lon>> of its argument roads_gdf
    k,          \* its argument k
    tree,       \* traffic_coords and traffic_congestion, the rows the tree holds
    query,      \* tree.query's answer: per road, k distances and k indices
    congestion_levels, \* the list congestion_levels
    \* visualize_time_machine.py, generate_hourly_snapshots
    tpc,        \* where generate_hourly_snapshots stands
    frames,     \* the GeoDataFrame objects there are; an object's id is its place
    roads_gdf,  \* its argument roads_gdf: the id of a frame
    roads_gdf0, \* history: the columns of the argument's frame at the call
    base_congestion, \* its local base_congestion, a Series
    hour,       \* the loop variable (-1: the loop has not begun)
    multiplier, \* its local multiplier
    roads_gdf_hour, \* its local roads_gdf_hour: the id of a frame (0: unbound)
    snapshots,  \* its dict snapshots: the GeoJSON of hour h at place h + 1
    \* the two colour mappers, each called on one congestion value
    arg_congestion, \* the argument congestion of both (None: NaN)
    arg_max_congestion, \* get_smooth_gradient_color's argument max_congestion
    dense_color,    \* what get_traffic_color returned (NoColor: not called)
    gradient_color, \* what get_smooth_gradient_color returned (NoColor: not called)
    \* traffic/scripts/traffic_collector_db.py, TrafficCollector.collect_all_roads
    kpc,            \* where collect_all_roads stands
    self_roads,     \* len(self.roads): the configured points are 1 .. self_roads
    road,           \* the loop counter i of enumerate(self.roads, 1)
    traffic_info,   \* its local traffic_info (None, or the point it describes)
    connection,     \* self.db_connection: "open" or "closed"
    fetched,        \* history: the points fetch_traffic_for_point was called for
    database,       \* history: the rows committed, in order: <<table, point>>
    roads_collected,\* its local roads_collected
    summary         \* the "Collection complete" line (None: not printed)

scanVars == <<cfg, pc, grid, i, resp, results, log, report, saved>>
idwVars == <<ipc, traffic_df, road_coords, k, tree, query, congestion_levels>>
tmVars == <<tpc, frames, roads_gdf, roads_gdf0, base_congestion, hour,
            multiplier, roads_gdf_hour, snapshots>>
colorVars == <<arg_congestion, arg_max_congestion, dense_color, gradient_color>>
collVars == <<kpc, self_roads, road, traffic_info, connection, fetched, database,
              roads_collected, summary>>
vars == <<scanVars, idwVars, tmVars, colorVars, collVars>>

\* the variables the scanner leaves alone
nonScanVars == <<idwVars, tmVars, colorVars, collVars>>
\* the variables the interpolation leaves alone
nonIdwVars == <<scanVars, tmVars, colorVars, collVars>>
\* the variables the snapshot generator leaves alone
nonTmVars == <<scanVars, idwVars, colorVars, collVars>>
\* the variables the colour mappers leave alone
nonColorVars == <<scanVars, idwVars, tmVars, collVars>>
\* the variables the collector leaves alone
nonCollVars == <<scanVars, idwVars, tmVars, colorVars>>

\* Python's None, and a value that is present
None == <<>>
Some(x) == <<x>>
Val(o) == o[1]

----------------------------------------------------------------------------
(* Bounds of the model *)

\* speeds the provider may report are None or -1 .. MaxSpeed
MaxSpeed == 2

\* the bits of a float's significand (53 in CPython's double)
MantissaBits == 8

\* a box side is configured with a decimal literal k/10, k in 0 .. MaxTenths
MaxTenths == 13
\* BBOX.lon_max ranges over -1 .. MaxLon (lon_min is 0)
MaxLon == 2
\* traffic_df has NumSites rows
NumSites == 4
\* interpolate_traffic_idw's k ranges over 1 .. MaxK
MaxK == 3

----------------------------------------------------------------------------
(* Exact rational arithmetic standing for Python's float arithmetic *)

(* Op(a, b) with a and b evaluated once, before Op's body reads them (they
   are bound as values rather than passed on as expressions). *)
Strict2(Op(_, _), a, b) == CHOOSE r \in {Op(x, y) : x \in {a}, y \in {b}} : TRUE
Strict1(Op(_), a) == CHOOSE r \in {Op(x) : x \in {a}} : TRUE
Strict3(Op(_, _, _), a, b, c) ==
    CHOOSE r \in {Op(x, y, z) : x \in {a}, y \in {b}, z \in {c}} : TRUE

Abs(x) == IF x < 0 THEN -x ELSE x

RECURSIVE Gcd(_, _)
GcdStep(a, b) == IF b = 0 THEN a ELSE Gcd(b, a % b)
Gcd(a, b) == Strict2(GcdStep, a, b)

\* the rational n/d (d # 0) in lowest terms with a positive denominator
RatOf(n, d) ==
    IF d < 0
    THEN [n |-> (-n) \div Gcd(Abs(n), Abs(d)), d |-> (-d) \div Gcd(Abs(n), Abs(d))]
    ELSE [n |-> n \div Gcd(Abs(n), Abs(d)), d |-> d \div Gcd(Abs(n), Abs(d))]
Rat(n, d) == Strict2(RatOf, n, d)

RInt(x)    == [n |-> x, d |-> 1]

RAddOf(a, b) ==
    Rat(a.n * (b.d \div Gcd(a.d, b.d)) + b.n * (a.d \div Gcd(a.d, b.d)),
        (a.d \div Gcd(a.d, b.d)) * b.d)
RAdd(a, b) == Strict2(RAddOf, a, b)

RSubOf(a, b) == RAddOf(a, [n |-> -b.n, d |-> b.d])
RSub(a, b) == Strict2(RSubOf, a, b)

RMulOf(a, b) ==
    Rat((a.n \div Gcd(Abs(a.n), b.d)) * (b.n \div Gcd(Abs(b.n), a.d)),
        (a.d \div Gcd(Abs(b.n), a.d)) * (b.d \div Gcd(Abs(a.n), b.d)))
RMul(a, b) == Strict2(RMulOf, a, b)

\* a / b for b # 0
RDivOf(a, b) ==
    IF b.n < 0 THEN RMulOf(a, [n |-> -b.d, d |-> -b.n])
               ELSE RMulOf(a, [n |-> b.d, d |-> b.n])
RDiv(a, b) == Strict2(RDivOf, a, b)

RLeOf(a, b) == a.n * b.d <= b.n * a.d
RLe(a, b)  == Strict2(RLeOf, a, b)
RLtOf(a, b) == a.n * b.d < b.n * a.d
RLt(a, b)  == Strict2(RLtOf, a, b)

\* Python's max(a, b) and min(a, b) on two numbers
RMaxOf(a, b) == IF RLtOf(a, b) THEN b ELSE a
RMax(a, b) == Strict2(RMaxOf, a, b)
RMinOf(a, b) == IF RLtOf(b, a) THEN b ELSE a
RMin(a, b) == Strict2(RMinOf, a, b)

\* the sum of a sequence of rationals
RECURSIVE RSum(_)
RSum(xs) == IF xs = <<>> THEN RInt(0) ELSE RAdd(xs[1], RSum(Tail(xs)))

\* float('inf'): greater than every number
Inf == [n |-> 1, d |-> 0]

(* Binary floating point, as far as numpy.arange depends on it: a float is 0
   or +-m * 2^e with 2^(MantissaBits-1) <= m < 2^MantissaBits, and the result
   of an operation is the float nearest to the exact result, ties to the
   even m.  (Exponents are not bounded: no overflow, no subnormals.) *)
Pow2(e) == IF e >= 0 THEN RInt(2 ^ e) ELSE Rat(1, 2 ^ (-e))

RAbs(x) == [n |-> Abs(x.n), d |-> x.d]

\* the exponent e with 2^(MantissaBits-1) <= y / 2^e < 2^MantissaBits, for y > 0
RECURSIVE FloatExp(_, _)
FloatExpStep(y, e) ==
    IF RLeOf(Pow2(e + MantissaBits), y) THEN FloatExp(y, e + 1)
    ELSE IF RLtOf(y, Pow2(e + MantissaBits - 1)) THEN FloatExp(y, e - 1)
    ELSE e
FloatExp(y, e) == Strict2(FloatExpStep, y, e)

\* the integer nearest to y >= 0, the even one of two that are equally near
RoundHalfEvenOf(y) ==
    IF 2 * (y.n % y.d) > y.d \/ (2 * (y.n % y.d) = y.d /\ (y.n \div y.d) % 2 = 1)
    THEN (y.n \div y.d) + 1
    ELSE y.n \div y.d
RoundHalfEven(y) == Strict1(RoundHalfEvenOf, y)

\* x # 0 rounded to MantissaBits bits at the exponent e
FlScale(x, e) ==
    IF x.n > 0
    THEN RMul(RInt(RoundHalfEven(RDiv(RAbs(x), Pow2(e)))), Pow2(e))
    ELSE RMul(RInt(-RoundHalfEven(RDiv(RAbs(x), Pow2(e)))), Pow2(e))

\* the float nearest to the rational x
FlOf(x) == IF x.n = 0 THEN x ELSE Strict2(FlScale, x, FloatExp(RAbs(x), 0))
Fl(x) == Strict1(FlOf, x)

\* float +, -, *, /
FAdd(a, b) == Fl(RAdd(a, b))
FSub(a, b) == Fl(RSub(a, b))
FMul(a, b) == Fl(RMul(a, b))
FDiv(a, b) == Fl(RDiv(a, b))

\* a decimal literal of the source, read as a float
PyFloat(x) == Fl(x)

\* math.ceil
Ceil(x) == -((-x.n) \div x.d)

----------------------------------------------------------------------------
(* scan_traffic.py: configuration *)

Speeds == {None} \cup {Some(v) : v \in -1 .. MaxSpeed}

\* BBOX and GRID_SPACING range over right and wrong configurations: empty and
\* inverted boxes (lat_max <= lat_min), zero and negative spacings.
Configs ==
    [lat_min : {RInt(0)}, lat_max : {RInt(v) : v \in {-1, 0, 1}},
     lon_min : {RInt(0)}, lon_max : {RInt(v) : v \in -1 .. MaxLon},
     spacing : {RInt(v) : v \in {-1, 0, 1, 2}}, has_key : BOOLEAN]

\* BBOX as generate_grid receives it: a dict of floats
PyBox(c) ==
    [lat_min |-> PyFloat(c.lat_min), lat_max |-> PyFloat(c.lat_max),
     lon_min |-> PyFloat(c.lon_min), lon_max |-> PyFloat(c.lon_max)]

(* numpy.arange(start, stop, step) on floats.  The length is the ceiling of
   the float (stop - start) / step, none when that is not positive.  The
   values are start, next = start + step, and from the third on
   start + i * delta with delta = next - start, every operation rounded to a
   float.  A zero step makes the division raise instead (ArangeRaises). *)
ArangeRaises(start, stop, step) == step.n = 0

ArangeLenOf(len) == IF len > 0 THEN len ELSE 0
ArangeLen(start, stop, step) ==
    Strict1(ArangeLenOf, Ceil(FDiv(FSub(stop, start), step)))

\* the values, from the first, the second and the length
ArangeFill(start, next, len) ==
    SubSeq([j \in 1 .. len |->
               IF j = 1 THEN start
               ELSE IF j = 2 THEN next
               ELSE FAdd(start, FMul(RInt(j - 1), FSub(next, start)))],
           1, len)

Arange(start, stop, step) ==
    Strict3(ArangeFill, start, FAdd(start, step), ArangeLen(start, stop, step))

generate_grid_raises(bbox, spacing) ==
    \/ ArangeRaises(bbox.lat_min, bbox.lat_max, spacing)
    \/ ArangeRaises(bbox.lon_min, bbox.lon_max, spacing)

\* [(lat, lon) for lat in lats for lon in lons]
\* the comprehension with its two loops exchanged
GridOf_ColumnMajor(lats, lons) ==
    SubSeq([j \in 1 .. Len(lats) * Len(lons) |->
                <<lats[((j - 1) % Len(lats)) + 1], lons[((j - 1) \div Len(lats)) + 1]>>],
           1, Len(lats) * Len(lons))

GridOf(lats, lons) ==
    SubSeq([j \in 1 .. Len(lats) * Len(lons) |->
               <<lats[((j - 1) \div Len(lons)) + 1],
                 lons[((j - 1) % Len(lons)) + 1]>>],
           1, Len(lats) * Len(lons))

generate_grid(bbox, spacing) ==
    Strict2(GridOf, Arange(bbox.lat_min, bbox.lat_max, spacing),
                    Arange(bbox.lon_min, bbox.lon_max, spacing))

----------------------------------------------------------------------------
(* scan_traffic.py: fetch_congestion *)

NoResp == [status |-> "none", current_speed |-> None, free_flow_speed |-> None]

\* what one session.get can come back with
Responses ==
    [status : {"ok"}, current_speed : Speeds, free_flow_speed : Speeds]
    \cup [status : {"rate_limited", "http_error", "net_error", "bad_json"},
          current_speed : {None}, free_flow_speed : {None}]

\* mutant: every HTTP error status is retried, not 429 alone
NeedsRetry_AnyHttpError(r) == r.status \in {"rate_limited", "http_error"}

\* line 92: response.status_code == 429 (a response exists: get did not raise)
NeedsRetry(r) == r.status = "rate_limited"

\* mutant: the upper clamp min(1.0, .) is left out
CongestionFactor_NoUpperClamp(current_speed, free_flow_speed) ==
    LET raw == RSub(RInt(1), RDiv(RInt(current_speed), RInt(free_flow_speed)))
    IN  RMax(RInt(0), raw)

\* lines 107-109: 1 - current/free_flow, then max(0.0, min(1.0, .))
CongestionFactor(current_speed, free_flow_speed) ==
    LET raw == RSub(RInt(1), RDiv(RInt(current_speed), RInt(free_flow_speed)))
    IN  RMax(RInt(0), RMin(RInt(1), raw))

InvalidSample(lat, lon) == [lat |-> lat, lon |-> lon, congestion_factor |-> None]

\* mutant: the except clause answers with the number 0 instead of None
Sample_ZeroOnFailure(lat, lon, r) ==
    IF r.status # "ok"
    THEN [lat |-> lat, lon |-> lon, congestion_factor |-> Some(RInt(0))]
    ELSE IF /\ r.current_speed # None
            /\ r.free_flow_speed # None
            /\ Val(r.free_flow_speed) > 0
         THEN [lat |-> lat, lon |-> lon,
               current_speed |-> Val(r.current_speed),
               free_flow_speed |-> Val(r.free_flow_speed),
               congestion_factor |->
                   Some(CongestionFactor(Val(r.current_speed),
                                         Val(r.free_flow_speed)))]
         ELSE InvalidSample(lat, lon)

\* mutant: free_flow_speed is tested for != 0 instead of > 0
Sample_NonZeroCheck(lat, lon, r) ==
    IF r.status # "ok"
    THEN InvalidSample(lat, lon)
    ELSE IF /\ r.current_speed # None
            /\ r.free_flow_speed # None
            /\ Val(r.free_flow_speed) # 0
         THEN [lat |-> lat, lon |-> lon,
               current_speed |-> Val(r.current_speed),
               free_flow_speed |-> Val(r.free_flow_speed),
               congestion_factor |->
                   Some(CongestionFactor(Val(r.current_speed),
                                         Val(r.free_flow_speed)))]
         ELSE InvalidSample(lat, lon)

(* lines 98-123, on the last response r: raise_for_status() and json() raise
   a RequestException unless r is a 2xx with a JSON body, and the except
   clause answers with the None sample; otherwise the speeds decide. *)
Sample(lat, lon, r) ==
    IF r.status # "ok"
    THEN InvalidSample(lat, lon)
    ELSE IF /\ r.current_speed # None
            /\ r.free_flow_speed # None
            /\ Val(r.free_flow_speed) > 0
         THEN [lat |-> lat, lon |-> lon,
               current_speed |-> Val(r.current_speed),
               free_flow_speed |-> Val(r.free_flow_speed),
               congestion_factor |->
                   Some(CongestionFactor(Val(r.current_speed),
                                         Val(r.free_flow_speed)))]
         ELSE InvalidSample(lat, lon)

\* the history's events
RequestEv(at, r) == [ev |-> "request", at |-> at, status |-> r.status]
BackoffEv(at)    == [ev |-> "backoff", at |-> at, status |-> "-"]
PaceEv(at)       == [ev |-> "pace", at |-> at, status |-> "-"]

\* mutant: the retry is issued without the sleep
BackoffEvents_None(at, r) == <<>>

\* lines 93-94: the sleep fetch_congestion takes before its retry
BackoffEvents(at, r) == <<BackoffEv(at)>>

\* mutant: the pacing sleep is skipped after a failed fetch
PaceEvents_OnlyAfterValid(at, total, rs) ==
    IF at < total /\ rs # <<>> /\ rs[Len(rs)].congestion_factor # None
    THEN <<PaceEv(at)>>
    ELSE <<>>

\* lines 152-153: the sleep scan_traffic_grid takes after the at-th fetch
PaceEvents(at, total, rs) ==
    IF at < total THEN <<PaceEv(at)>> ELSE <<>>

\* mutant: a failed fetch's sample is dropped instead of appended
ScanAppend_SkipInvalid(rs, result) ==
    IF result.congestion_factor = None THEN rs ELSE Append(rs, result)

\* line 149: results.append(result)
ScanAppend(rs, result) == Append(rs, result)

----------------------------------------------------------------------------
(* scan_traffic.py: main and scan_traffic_grid, step by step *)

Terminal == {"no_key", "raised_grid", "raised_stats", "done"}

\* the interpolation is not running
IdwIdle ==
    /\ ipc = "idle"
    /\ traffic_df = <<>>
    /\ road_coords = <<>>
    /\ k = 0
    /\ tree = <<>>
    /\ query = <<>>
    /\ congestion_levels = <<>>

\* generate_hourly_snapshots is not running
TmIdle ==
    /\ tpc = "idle"
    /\ frames = <<>>
    /\ roads_gdf = 0
    /\ roads_gdf0 = <<>>
    /\ base_congestion = <<>>
    /\ hour = -1
    /\ multiplier = RInt(0)
    /\ roads_gdf_hour = 0
    /\ snapshots = <<>>

\* a colour mapper that was not called has returned no string
NoColor == <<>>

\* no colour mapper is called
ColorIdle ==
    /\ arg_congestion = None
    /\ arg_max_congestion = RInt(1)
    /\ dense_color = NoColor
    /\ gradient_color = NoColor

\* collect_all_roads is not running
CollIdle ==
    /\ kpc = "idle"
    /\ self_roads = 0
    /\ road = 0
    /\ traffic_info = None
    /\ connection = "open"
    /\ fetched = <<>>
    /\ database = <<>>
    /\ roads_collected = 0
    /\ summary = None

ScanInit ==
    /\ cfg \in Configs
    /\ pc = "start"
    /\ grid = <<>>
    /\ i = 0
    /\ resp = NoResp
    /\ results = <<>>
    /\ log = <<>>
    /\ report = None
    /\ saved = None
    /\ IdwIdle
    /\ TmIdle
    /\ ColorIdle
    /\ CollIdle

\* main, lines 165-170: without an API key, print the error and return
Main_CheckKey ==
    /\ pc = "start"
    /\ pc' = IF cfg.has_key THEN "generate" ELSE "no_key"
    /\ UNCHANGED <<cfg, grid, i, resp, results, log, report, saved, nonScanVars>>

\* main, line 179: grid = generate_grid(BBOX, GRID_SPACING)
Main_GenerateGrid ==
    /\ pc = "generate"
    /\ IF generate_grid_raises(PyBox(cfg), PyFloat(cfg.spacing))
       THEN pc' = "raised_grid" /\ grid' = grid
       ELSE pc' = "scan" /\ grid' = generate_grid(PyBox(cfg), PyFloat(cfg.spacing))
    /\ UNCHANGED <<cfg, i, resp, results, log, report, saved, nonScanVars>>

\* scan_traffic_grid, lines 137-142: an empty list, then the loop's first turn
Scan_Begin ==
    /\ pc = "scan"
    /\ results' = <<>>
    /\ IF Len(grid) = 0
       THEN pc' = "stats" /\ i' = i
       ELSE pc' = "fetch" /\ i' = 1
    /\ UNCHANGED <<cfg, grid, resp, log, report, saved, nonScanVars>>

\* fetch_congestion, lines 89-92: the first session.get
Fetch_Request ==
    /\ pc = "fetch"
    /\ \E r \in Responses :
        /\ resp' = r
        /\ log' = Append(log, RequestEv(i, r))
        /\ pc' = IF NeedsRetry(r) THEN "backoff" ELSE "finish"
    /\ UNCHANGED <<cfg, grid, i, results, report, saved, nonScanVars>>

\* fetch_congestion, lines 93-94: time.sleep(5)
Fetch_Backoff ==
    /\ pc = "backoff"
    /\ log' = log \o BackoffEvents(i, resp)
    /\ pc' = "retry"
    /\ UNCHANGED <<cfg, grid, i, resp, results, report, saved, nonScanVars>>

\* fetch_congestion, line 96: the second session.get
Fetch_Retry ==
    /\ pc = "retry"
    /\ \E r \in Responses :
        /\ resp' = r
        /\ log' = Append(log, RequestEv(i, r))
    /\ pc' = "finish"
    /\ UNCHANGED <<cfg, grid, i, results, report, saved, nonScanVars>>

\* fetch_congestion, lines 98-123, and scan_traffic_grid, lines 148-149
Fetch_Finish ==
    /\ pc = "finish"
    /\ results' = ScanAppend(results, Sample(grid[i][1], grid[i][2], resp))
    /\ pc' = "pace"
    /\ UNCHANGED <<cfg, grid, i, resp, log, report, saved, nonScanVars>>

\* scan_traffic_grid, lines 152-153 and the loop's next turn or its end
Scan_Pace ==
    /\ pc = "pace"
    /\ log' = log \o PaceEvents(i, Len(grid), results)
    /\ resp' = NoResp
    /\ IF i < Len(grid)
       THEN pc' = "fetch" /\ i' = i + 1
       ELSE pc' = "stats" /\ i' = i
    /\ UNCHANGED <<cfg, grid, results, report, saved, nonScanVars>>

Valid(rs) == SelectSeq(rs, LAMBDA s : s.congestion_factor # None)

(* main, lines 188-195: pd.DataFrame(results) of an empty list has no
   columns, and df["congestion_factor"] raises KeyError; otherwise the
   totals are printed. *)
Main_Stats ==
    /\ pc = "stats"
    /\ IF Len(results) = 0
       THEN pc' = "raised_stats" /\ report' = report
       ELSE /\ pc' = "save"
            /\ report' = Some([total |-> Len(results),
                               valid |-> Len(Valid(results)),
                               failed |-> Len(results) - Len(Valid(results))])
    /\ UNCHANGED <<cfg, grid, i, resp, results, log, saved, nonScanVars>>

\* main, line 204: df.to_csv(OUTPUT_FILE)
Main_Save ==
    /\ pc = "save"
    /\ saved' = Some(results)
    /\ pc' = "done"
    /\ UNCHANGED <<cfg, grid, i, resp, results, log, report, nonScanVars>>

ScanNext ==
    \/ Main_CheckKey
    \/ Main_GenerateGrid
    \/ Scan_Begin
    \/ Fetch_Request
    \/ Fetch_Backoff
    \/ Fetch_Retry
    \/ Fetch_Finish
    \/ Scan_Pace
    \/ Main_Stats
    \/ Main_Save

Spec == ScanInit /\ [][ScanNext]_vars

\* main runs to its end: every step that can be taken is taken
FairSpec == Spec /\ WF_vars(ScanNext)

(* generate_grid on its own: main stands before line 179 with a BBOX and a
   GRID_SPACING written as decimal literals, among them the box 0..1 by 0..1
   with spacing 0.5, boxes that are empty or inverted, and spacings that are
   zero or negative. *)
GridConfigs ==
    [lat_min : {RInt(0), RInt(1)},
     lat_max : {Rat(t, 10) : t \in 0 .. MaxTenths},
     lon_min : {RInt(0)},
     lon_max : {RInt(0), Rat(3, 10), RInt(1)},
     spacing : {Rat(-1, 10), RInt(0), Rat(1, 10), Rat(1, 5), Rat(1, 2), RInt(2)},
     has_key : {TRUE}]

GridInit ==
    /\ cfg \in GridConfigs
    /\ pc = "generate"
    /\ grid = <<>>
    /\ i = 0
    /\ resp = NoResp
    /\ results = <<>>
    /\ log = <<>>
    /\ report = None
    /\ saved = None
    /\ IdwIdle
    /\ TmIdle
    /\ ColorIdle
    /\ CollIdle

GridSpec == GridInit /\ [][Main_GenerateGrid]_vars

----------------------------------------------------------------------------
(* visualize_dense_traffic.py: interpolate_traffic_idw *)

(* The coordinate unit is 1e-7 degree, so that line 119's 1e-10 degree is
   1 / EPS_INV of a unit. *)
EPS_INV == 1000
Eps == Rat(1, EPS_INV)

\* where the rows of traffic_df lie, and the road midpoints that are tried:
\* every road-to-row distance is a whole number of units
SitePos == <<<<1, 0>>, <<2, 0>>, <<4, 0>>, <<4, 3>>, <<0, 3>>>>
RoadSets == {<<>>, <<<<0, 0>>>>, <<<<4, 0>>>>, <<<<0, 0>>, <<4, 0>>>>}

\* the congestion factors a row may carry: NaN (None), 1/5, 2/5, 3/5
CFValues == {None} \cup {Some(Rat(n, 5)) : n \in 1 .. 3}

TrafficFrames ==
    {[j \in 1 .. NumSites |->
        [lat |-> SitePos[j][1], lon |-> SitePos[j][2],
         congestion_factor |-> c[j]]] : c \in [1 .. NumSites -> CFValues]}

ISqrt(x) == CHOOSE r \in 0 .. x : r * r = x

\* the planar distance of two points
Dist(p, q) ==
    RInt(ISqrt((p[1] - q[1]) * (p[1] - q[1]) + (p[2] - q[2]) * (p[2] - q[2])))

\* mutant: NaN rows are kept as zero congestion (fillna(0)) instead of dropped
ValidRows_FillZero(df) ==
    [j \in 1 .. Len(df) |->
        IF df[j].congestion_factor = None
        THEN [df[j] EXCEPT !.congestion_factor = Some(RInt(0))]
        ELSE df[j]]

\* line 92: traffic_df[traffic_df['congestion_factor'].notna()]
ValidRows(df) == SelectSeq(df, LAMBDA row : row.congestion_factor # None)

RowPos(row) == <<row.lat, row.lon>>

(* cKDTree.query(pt, k): the kk points of the tree nearest to pt, nearest
   first, as their distances and their indices (1 .. n here, 0 .. n-1 in
   scipy).  Points at equal distance come in an order the tree chooses.
   When the tree holds n < kk points the answer is filled up with the
   distance inf and the index one past the last (n + 1 here, n in scipy). *)
TreeQuery(T, pt, kk) ==
    LET n == Len(T)
        m == IF kk < n THEN kk ELSE n
        d(j) == Dist(RowPos(T[j]), pt)
        picks == {s \in [1 .. m -> 1 .. n] :
                    /\ \A a, b \in 1 .. m : a < b =>
                          s[a] # s[b] /\ RLe(d(s[a]), d(s[b]))
                    /\ \A j \in 1 .. n :
                          (\A a \in 1 .. m : s[a] # j) =>
                              \A a \in 1 .. m : RLe(d(s[a]), d(j))}
    IN  {[distances |-> [a \in 1 .. kk |-> IF a <= m THEN d(s[a]) ELSE Inf],
          indices |-> [a \in 1 .. kk |-> IF a <= m THEN s[a] ELSE n + 1]] :
            s \in picks}

\* the answers tree.query(road_coords, k) can give: one per road
RECURSIVE QueryAnswers(_, _, _, _)
QueryAnswers(T, roads, kk, r) ==
    IF r = 0
    THEN {<<>>}
    ELSE {Append(q, a) : q \in QueryAnswers(T, roads, kk, r - 1),
                         a \in TreeQuery(T, roads[r], kk)}

\* mutant: the weights are 1/distance, not normalized
IDWWeights_NotNormalized(distances) ==
    [j \in 1 .. Len(distances) |-> RDiv(RInt(1), RMax(distances[j], Eps))]

\* mutant: the distances are clamped to one unit instead of 1e-10 degree
IDWWeights_CoarseEps(distances) ==
    LET nd == [j \in 1 .. Len(distances) |-> RMax(distances[j], RInt(1))]
        w == [j \in 1 .. Len(distances) |-> RDiv(RInt(1), nd[j])]
        total == RSum(w)
    IN  [j \in 1 .. Len(distances) |-> RDiv(w[j], total)]

\* mutant: the nearest neighbour takes the whole weight
IDWWeights_NearestOnly(distances) ==
    [j \in 1 .. Len(distances) |-> IF j = 1 THEN RInt(1) ELSE RInt(0)]

\* lines 119-123: np.maximum(d, 1e-10), 1.0 / d, weights / weights.sum()
IDWWeights(distances) ==
    LET nd == [j \in 1 .. Len(distances) |-> RMax(distances[j], Eps)]
        w == [j \in 1 .. Len(distances) |-> RDiv(RInt(1), nd[j])]
        total == RSum(w)
    IN  [j \in 1 .. Len(distances) |-> RDiv(w[j], total)]

\* mutant: the factors are summed without their weights
IDWValue_Unweighted(neighbor_congestion, distances) ==
    RSum([j \in 1 .. Len(distances) |-> neighbor_congestion[j]])

\* line 126: np.sum(neighbor_congestion * weights)
IDWValue(neighbor_congestion, distances) ==
    LET weights == IDWWeights(distances)
    IN  RSum([j \in 1 .. Len(distances) |->
                 RMul(neighbor_congestion[j], weights[j])])

\* the scanner is not running
ScanIdle ==
    /\ cfg = [lat_min |-> RInt(0), lat_max |-> RInt(0), lon_min |-> RInt(0),
              lon_max |-> RInt(0), spacing |-> RInt(0), has_key |-> FALSE]
    /\ pc = "idle"
    /\ grid = <<>>
    /\ i = 0
    /\ resp = NoResp
    /\ results = <<>>
    /\ log = <<>>
    /\ report = None
    /\ saved = None

IdwInit ==
    /\ ScanIdle
    /\ TmIdle
    /\ ipc = "filter"
    /\ traffic_df \in TrafficFrames
    /\ road_coords \in RoadSets
    /\ k \in 1 .. MaxK
    /\ tree = <<>>
    /\ query = <<>>
    /\ congestion_levels = <<>>
    /\ ColorIdle
    /\ CollIdle

\* lines 91-98: the valid rows, and the tree over them
IDW_Filter ==
    /\ ipc = "filter"
    /\ tree' = ValidRows(traffic_df)
    /\ ipc' = "query"
    /\ UNCHANGED <<traffic_df, road_coords, k, query, congestion_levels,
                   nonIdwVars>>

(* lines 100-107: the midpoints and tree.query.  With no road, road_coords
   is an array of shape (0,), and query raises ValueError (x must consist of
   vectors of length 2). *)
IDW_Query ==
    /\ ipc = "query"
    /\ IF road_coords = <<>>
       THEN ipc' = "raised_query" /\ query' = query
       ELSE /\ query' \in QueryAnswers(tree, road_coords, k, Len(road_coords))
            /\ ipc' = "weigh"
    /\ UNCHANGED <<traffic_df, road_coords, k, tree, congestion_levels,
                   nonIdwVars>>

(* lines 113-127, one turn of the loop.  traffic_congestion[indices[i]]
   raises IndexError when an index is one past the tree's last point. *)
IDW_Weigh ==
    /\ ipc = "weigh"
    /\ LET r == Len(congestion_levels) + 1
           indices == query[r].indices
       IN  IF \E a \in 1 .. k : indices[a] > Len(tree)
           THEN ipc' = "raised_index" /\ congestion_levels' = congestion_levels
           ELSE /\ congestion_levels' =
                     Append(congestion_levels,
                            IDWValue([a \in 1 .. k |->
                                         Val(tree[indices[a]].congestion_factor)],
                                     query[r].distances))
                /\ ipc' = IF r < Len(road_coords) THEN "weigh" ELSE "finish"
    /\ UNCHANGED <<traffic_df, road_coords, k, tree, query, nonIdwVars>>

\* lines 129-135: the column congestion_level, and the return
IDW_Finish ==
    /\ ipc = "finish"
    /\ ipc' = "done"
    /\ UNCHANGED <<traffic_df, road_coords, k, tree, query, congestion_levels,
                   nonIdwVars>>

IdwNext ==
    \/ IDW_Filter
    \/ IDW_Query
    \/ IDW_Weigh
    \/ IDW_Finish

IdwSpec == IdwInit /\ [][IdwNext]_vars

----------------------------------------------------------------------------
(* visualize_time_machine.py: generate_hourly_snapshots *)

\* the roads of the frame handed to generate_hourly_snapshots
NumRoads == 2

\* line 142: range(24)
HOURS == 24

(* The congestion_level a road of that frame may carry: NaN (None) or a
   number of [0, 1], as interpolate_traffic_idw yields them from congestion
   factors of [0, 1]. *)
BaseLevels == {None} \cup {Some(Rat(n, 5)) : n \in {0, 1, 3, 5}}
BaseFields == [1 .. NumRoads -> BaseLevels]

\* mutant: the evening rush band reaches to 8 PM inclusive
get_time_multiplier_LateRush(h) ==
    IF 3 <= h /\ h < 6 THEN Rat(3, 10)
    ELSE IF 7 <= h /\ h < 9 THEN RInt(2)
    ELSE IF 9 <= h /\ h < 10 THEN Rat(3, 2)
    ELSE IF 10 <= h /\ h < 16 THEN RInt(1)
    ELSE IF 16 <= h /\ h < 17 THEN Rat(3, 2)
    ELSE IF 17 <= h /\ h <= 20 THEN Rat(5, 2)
    ELSE IF 20 <= h /\ h < 23 THEN Rat(6, 5)
    ELSE IF 23 <= h \/ h < 3 THEN Rat(1, 2)
    ELSE RInt(1)

\* mutant: the normal-day band gives 1.1
get_time_multiplier_BusyNoon(h) ==
    IF 3 <= h /\ h < 6 THEN Rat(3, 10)
    ELSE IF 7 <= h /\ h < 9 THEN RInt(2)
    ELSE IF 9 <= h /\ h < 10 THEN Rat(3, 2)
    ELSE IF 10 <= h /\ h < 16 THEN Rat(11, 10)
    ELSE IF 16 <= h /\ h < 17 THEN Rat(3, 2)
    ELSE IF 17 <= h /\ h < 20 THEN Rat(5, 2)
    ELSE IF 20 <= h /\ h < 23 THEN Rat(6, 5)
    ELSE IF 23 <= h \/ h < 3 THEN Rat(1, 2)
    ELSE RInt(1)

\* lines 63-80
get_time_multiplier(h) ==
    IF 3 <= h /\ h < 6 THEN Rat(3, 10)
    ELSE IF 7 <= h /\ h < 9 THEN RInt(2)
    ELSE IF 9 <= h /\ h < 10 THEN Rat(3, 2)
    ELSE IF 10 <= h /\ h < 16 THEN RInt(1)
    ELSE IF 16 <= h /\ h < 17 THEN Rat(3, 2)
    ELSE IF 17 <= h /\ h < 20 THEN Rat(5, 2)
    ELSE IF 20 <= h /\ h < 23 THEN Rat(6, 5)
    ELSE IF 23 <= h \/ h < 3 THEN Rat(1, 2)
    ELSE RInt(1)

\* Python's int(x): the fraction is cut off, towards zero
Trunc(x) == IF x.n >= 0 THEN x.n \div x.d ELSE -((-x.n) \div x.d)

\* the character '-' among the hexadecimal digits 0 .. 15 of a string
Minus == -1

\* the hexadecimal digits of v >= 0, the most significant first
RECURSIVE HexDigits(_)
HexDigits(v) == IF v < 16 THEN <<v>> ELSE Append(HexDigits(v \div 16), v % 16)

\* f'{v:02x}': the sign if any, then the digits, zero-padded to two characters
Format02x(v) ==
    IF v < 0 THEN <<Minus>> \o HexDigits(-v)
    ELSE IF v < 16 THEN <<0, v>>
    ELSE HexDigits(v)

\* line 85: f'#{r:02x}{g:02x}{b:02x}', as the characters that follow the '#'
rgb_to_hex(r, g, b) == Format02x(r) \o Format02x(g) \o Format02x(b)

\* mutant: the value is divided by the default ceiling, whatever the argument
Normalize_FixedCeiling(congestion, max_congestion) ==
    RMin(RDiv(congestion, Rat(3, 5)), RInt(1))

\* mutant: min(..., 1.0) is left out
Normalize_NoClamp(congestion, max_congestion) ==
    RDiv(congestion, max_congestion)

\* line 105: normalized = min(congestion / max_congestion, 1.0)
Normalize(congestion, max_congestion) ==
    RMin(RDiv(congestion, max_congestion), RInt(1))

\* int(255 * t)
Channel(t) == Trunc(RMul(RInt(255), t))

\* mutant: the last segment is as wide as the other two, 0.33
Gradient_EqualWidth(normalized) ==
    IF RLt(normalized, Rat(33, 100))
    THEN LET t == RDiv(normalized, Rat(33, 100))
         IN  <<0, Channel(t), 255>>
    ELSE IF RLt(normalized, Rat(66, 100))
    THEN LET t == RDiv(RSub(normalized, Rat(33, 100)), Rat(33, 100))
         IN  <<Channel(t), 255, Channel(RSub(RInt(1), t))>>
    ELSE LET t == RDiv(RSub(normalized, Rat(66, 100)), Rat(33, 100))
         IN  <<255, Channel(RSub(RInt(1), t)), 0>>

\* mutant: on the middle segment blue is int(255 * t), as red is
Gradient_BlueRises(normalized) ==
    IF RLt(normalized, Rat(33, 100))
    THEN LET t == RDiv(normalized, Rat(33, 100))
         IN  <<0, Channel(t), 255>>
    ELSE IF RLt(normalized, Rat(66, 100))
    THEN LET t == RDiv(RSub(normalized, Rat(33, 100)), Rat(33, 100))
         IN  <<Channel(t), 255, Channel(t)>>
    ELSE LET t == RDiv(RSub(normalized, Rat(66, 100)), Rat(34, 100))
         IN  <<255, Channel(RSub(RInt(1), t)), 0>>

\* lines 107-122: the channels <<r, g, b>> of a normalized value
Gradient(normalized) ==
    IF RLt(normalized, Rat(33, 100))
    THEN LET t == RDiv(normalized, Rat(33, 100))
         IN  <<0, Channel(t), 255>>
    ELSE IF RLt(normalized, Rat(66, 100))
    THEN LET t == RDiv(RSub(normalized, Rat(33, 100)), Rat(33, 100))
         IN  <<Channel(t), 255, Channel(RSub(RInt(1), t))>>
    ELSE LET t == RDiv(RSub(normalized, Rat(66, 100)), Rat(34, 100))
         IN  <<255, Channel(RSub(RInt(1), t)), 0>>

\* '#666666', the colour of a NaN
Neutral == <<6, 6, 6, 6, 6, 6>>

\* lines 101-124, with max_congestion as a rational
get_smooth_gradient_color(congestion, max_congestion) ==
    IF congestion = None
    THEN Neutral
    ELSE LET rgb == Gradient(Normalize(Val(congestion), max_congestion))
         IN  rgb_to_hex(rgb[1], rgb[2], rgb[3])

\* line 88: the default of max_congestion
DefaultMaxCongestion == Rat(3, 5)

\* mutant: a NaN level counts as 0 (fillna(0)) before the multiplication
SeriesMul_FillZero(series, m) ==
    [t \in 1 .. Len(series) |->
        IF series[t] = None THEN Some(RInt(0)) ELSE Some(RMul(Val(series[t]), m))]

\* line 146: Series * float; NaN * m is NaN
SeriesMul(series, m) ==
    [t \in 1 .. Len(series) |->
        IF series[t] = None THEN None ELSE Some(RMul(Val(series[t]), m))]

\* mutant: no copy is taken, the hour's frame is the argument's frame
GdfCopy_Alias(heap, id) == [heap |-> heap, ref |-> id]

\* line 149: roads_gdf.copy(), a new object with the same columns
GdfCopy(heap, id) == [heap |-> Append(heap, heap[id]), ref |-> Len(heap) + 1]

\* line 156: the columns congestion_level and color, written out as GeoJSON
ToJson(frame) ==
    [congestion_level |-> frame.congestion_level, color |-> Val(frame.color)]

TmInit ==
    /\ ScanIdle
    /\ IdwIdle
    /\ tpc = "begin"
    /\ \E f \in BaseFields :
          /\ frames = <<[congestion_level |-> f, color |-> None]>>
          /\ roads_gdf0 = [congestion_level |-> f, color |-> None]
    /\ roads_gdf = 1
    /\ base_congestion = <<>>
    /\ hour = -1
    /\ multiplier = RInt(0)
    /\ roads_gdf_hour = 0
    /\ snapshots = <<>>
    /\ ColorIdle
    /\ CollIdle

\* lines 139-140
TM_Begin ==
    /\ tpc = "begin"
    /\ snapshots' = <<>>
    /\ base_congestion' = frames[roads_gdf].congestion_level
    /\ tpc' = "for"
    /\ UNCHANGED <<frames, roads_gdf, roads_gdf0, hour, multiplier,
                   roads_gdf_hour, nonTmVars>>

\* lines 142-143: the next hour of range(24) and its multiplier
TM_For ==
    /\ tpc = "for"
    /\ IF hour + 1 < HOURS
       THEN /\ hour' = hour + 1
            /\ multiplier' = get_time_multiplier(hour + 1)
            /\ tpc' = "body"
       ELSE /\ tpc' = "return"
            /\ UNCHANGED <<hour, multiplier>>
    /\ UNCHANGED <<frames, roads_gdf, roads_gdf0, base_congestion,
                   roads_gdf_hour, snapshots, nonTmVars>>

\* lines 146-157: the hour's levels, the hour's frame and its GeoJSON
TM_Body ==
    /\ tpc = "body"
    /\ LET hourly_congestion == SeriesMul(base_congestion, multiplier)
           copy == GdfCopy(frames, roads_gdf)
           colors == [t \in 1 .. Len(hourly_congestion) |->
                        get_smooth_gradient_color(hourly_congestion[t],
                                                  DefaultMaxCongestion)]
           hour_frame == [congestion_level |-> hourly_congestion,
                          color |-> Some(colors)]
       IN  /\ roads_gdf_hour' = copy.ref
           /\ frames' = [copy.heap EXCEPT ![copy.ref] = hour_frame]
           /\ snapshots' = Append(snapshots, ToJson(hour_frame))
    /\ tpc' = "for"
    /\ UNCHANGED <<roads_gdf, roads_gdf0, base_congestion, hour, multiplier,
                   nonTmVars>>

\* line 161
TM_Return ==
    /\ tpc = "return"
    /\ tpc' = "done"
    /\ UNCHANGED <<frames, roads_gdf, roads_gdf0, base_congestion, hour,
                   multiplier, roads_gdf_hour, snapshots, nonTmVars>>

TmNext ==
    \/ TM_Begin
    \/ TM_For
    \/ TM_Body
    \/ TM_Return

TmSpec == TmInit /\ [][TmNext]_vars

----------------------------------------------------------------------------
(* The colour mappers: visualize_dense_traffic.py's get_traffic_color, which
   colours the single map, and visualize_time_machine.py's
   get_smooth_gradient_color, which colours the hourly snapshots *)

\* the congestion levels beyond [0, 1] a mapper is called with, in 300ths
MaxOver == 60

\* visualize_dense_traffic.py, lines 153-163, the colour's characters after '#'
get_traffic_color(c) ==
    IF c = None THEN Neutral
    ELSE IF RLt(Val(c), Rat(2, 10)) THEN <<0, 0, 15, 15, 4, 1>>
    ELSE IF RLt(Val(c), Rat(4, 10)) THEN <<15, 15, 15, 15, 0, 0>>
    ELSE IF RLt(Val(c), Rat(7, 10)) THEN <<15, 15, 5, 5, 0, 0>>
    ELSE <<15, 15, 0, 0, 0, 0>>

\* the values a mapper is called with: NaN, or a multiple of 1/300
ColorLevels == {None} \cup {Some(Rat(n, 300)) : n \in -MaxOver .. 300 + MaxOver}

\* the ceilings get_smooth_gradient_color is called with: its default, and 1
ColorCeilings == {DefaultMaxCongestion, RInt(1)}

ColorInit ==
    /\ arg_congestion \in ColorLevels
    /\ arg_max_congestion \in ColorCeilings
    /\ dense_color = NoColor
    /\ gradient_color = NoColor
    /\ ScanIdle
    /\ IdwIdle
    /\ TmIdle
    /\ CollIdle

\* visualize_dense_traffic.py, line 249: 'color': get_traffic_color(congestion)
Dense_Color ==
    /\ dense_color = NoColor
    /\ dense_color' = get_traffic_color(arg_congestion)
    /\ UNCHANGED <<arg_congestion, arg_max_congestion, gradient_color, nonColorVars>>

\* visualize_time_machine.py, lines 88-124: one call of the gradient mapper
Gradient_Color ==
    /\ gradient_color = NoColor
    /\ gradient_color' = get_smooth_gradient_color(arg_congestion, arg_max_congestion)
    /\ UNCHANGED <<arg_congestion, arg_max_congestion, dense_color, nonColorVars>>

ColorNext ==
    \/ Dense_Color
    \/ Gradient_Color

ColorSpec == ColorInit /\ [][ColorNext]_vars

----------------------------------------------------------------------------
(* traffic_collector_db.py: TrafficCollector.collect_all_roads.  main has
   connected to the database (connect_db returned True) before it calls
   collect_all_roads. *)

\* the configured points are at most this many
NumPoints == 3

(* How a call of fetch_traffic_for_point ends: "ok" (a flowSegmentData that
   is not empty and whose fields are usable), "no_flow" (none, or an empty
   one), "http_error" (raise_for_status raises), "net_error" (requests.get
   raises) and "bad_data" (any other exception while the answer is read). *)
FetchOutcomes == {"ok", "no_flow", "http_error", "net_error", "bad_data"}

\* lines 89-196: the dict of the point (here: the point), or None
fetch_traffic_for_point(point, outcome) ==
    IF outcome = "ok" THEN Some(point) ELSE None

(* How a save ends: "ok" (the statement is executed and committed),
   "db_error" (cursor, execute or commit raises and the connection stays
   usable: rollback() succeeds) and "conn_lost" (they raise because the
   server has closed the connection: psycopg2 marks the connection closed,
   and rollback() on a closed connection raises InterfaceError, inside the
   except block). *)
SaveOutcomes == {"ok", "db_error", "conn_lost"}

\* a save, as the history keeps it
SaveEntry(table, point, outcome) ==
    [table |-> table, point |-> point, outcome |-> outcome]

CollInit ==
    /\ kpc = "begin"
    /\ self_roads \in 0 .. NumPoints
    /\ road = 0
    /\ traffic_info = None
    /\ connection = "open"
    /\ fetched = <<>>
    /\ database = <<>>
    /\ roads_collected = 0
    /\ summary = None
    /\ ScanIdle
    /\ IdwIdle
    /\ TmIdle
    /\ ColorIdle

\* lines 251-256: the banner, collected_at, roads_collected = 0
Coll_Begin ==
    /\ kpc = "begin"
    /\ roads_collected' = 0
    /\ kpc' = "for"
    /\ UNCHANGED <<self_roads, road, traffic_info, connection, fetched,
                   database, summary, nonCollVars>>

(* lines 258-266 and, when nothing was fetched, 275-277: the next point is
   fetched; `if traffic_info:` is false for None, and the sleep follows. *)
Coll_Fetch ==
    /\ kpc = "for"
    /\ road < self_roads
    /\ road' = road + 1
    /\ \E outcome \in FetchOutcomes :
           /\ traffic_info' = fetch_traffic_for_point(road + 1, outcome)
           /\ fetched' = Append(fetched, [point |-> road + 1,
                                         data |-> outcome = "ok"])
    /\ kpc' = IF traffic_info' # None THEN "save_segment" ELSE "for"
    /\ UNCHANGED <<self_roads, connection, database, roads_collected,
                   summary, nonCollVars>>

(* line 268, save_road_segment (lines 198-224): an exception of the try block
   is caught and followed by rollback(); what rollback() raises leaves
   save_road_segment and collect_all_roads. *)
Coll_SaveSegment ==
    /\ kpc = "save_segment"
    /\ \E outcome \in SaveOutcomes :
           /\ database' = Append(database,
                   SaveEntry("road_segments", Val(traffic_info), outcome))
           /\ connection' = IF outcome = "conn_lost" THEN "closed" ELSE connection
           /\ kpc' = IF outcome = "conn_lost" THEN "raised" ELSE "save_traffic"
    /\ UNCHANGED <<self_roads, road, traffic_info, fetched, roads_collected,
                   summary, nonCollVars>>

(* lines 271-277, save_traffic_data (lines 226-247): as save_road_segment;
   then roads_collected += 1 and the sleep. *)
Coll_SaveTraffic ==
    /\ kpc = "save_traffic"
    /\ \E outcome \in SaveOutcomes :
           /\ database' = Append(database,
                   SaveEntry("traffic_data", Val(traffic_info), outcome))
           /\ connection' = IF outcome = "conn_lost" THEN "closed" ELSE connection
           /\ kpc' = IF outcome = "conn_lost" THEN "raised" ELSE "for"
           /\ roads_collected' = IF outcome = "conn_lost" THEN roads_collected
                                 ELSE roads_collected + 1
    /\ UNCHANGED <<self_roads, road, traffic_info, fetched, summary,
                   nonCollVars>>

\* lines 279-282: the loop is over, "Collection complete: n/len roads"
Coll_Report ==
    /\ kpc = "for"
    /\ road = self_roads
    /\ summary' = Some(roads_collected)
    /\ kpc' = "done"
    /\ UNCHANGED <<self_roads, road, traffic_info, connection, fetched,
                   database, roads_collected, nonCollVars>>

CollNext ==
    \/ Coll_Begin
    \/ Coll_Fetch
    \/ Coll_SaveSegment
    \/ Coll_SaveTraffic
    \/ Coll_Report

CollSpec == CollInit /\ [][CollNext]_vars

----------------------------------------------------------------------------
(* The scanner's history, read back *)

\* the places of the history where a lookup for the j-th coordinate was issued
ReqIdx(j) == {p \in 1 .. Len(log) : log[p].ev = "request" /\ log[p].at = j}

Min(S) == CHOOSE x \in S : \A y \in S : x <= y
Max(S) == CHOOSE x \in S : \A y \in S : y <= x

\* fetch_congestion has returned for the j-th coordinate
Completed(j) == j <= Len(results)

\* scan_traffic_grid has returned
ScanReturned == pc \in {"stats", "save", "done", "raised_stats"}

Failures == {"rate_limited", "http_error", "net_error", "bad_json"}

----------------------------------------------------------------------------
(* C1: for every coordinate, a rate-limited first response is followed by the
   backoff sleep and then by exactly one more lookup of that coordinate; a
   first response that is not rate-limited is followed by no second lookup.
   So no coordinate is looked up more than twice, and a second lookup always
   comes right after the backoff sleep that follows the rate-limited one. *)
C1_RetryExactlyOnce ==
    \A j \in 1 .. Len(grid) :
        LET R == ReqIdx(j) IN
        /\ Cardinality(R) <= 2
        /\ \A p \in R :
            (\E q \in R : q < p) =>
                /\ p >= 3
                /\ log[p - 1] = BackoffEv(j)
                /\ log[p - 2] = [ev |-> "request", at |-> j,
                                 status |-> "rate_limited"]
                /\ p - 2 \in R
        /\ \A p \in 1 .. Len(log) :
            (log[p].ev = "backoff" /\ log[p].at = j) =>
                /\ p - 1 \in R /\ log[p - 1].status = "rate_limited"
                /\ p < Len(log) => p + 1 \in R
        /\ Completed(j) =>
            /\ R # {}
            /\ (log[Min(R)].status = "rate_limited") <=> (Cardinality(R) = 2)

\* both cases happened: coordinate 1 was rate-limited and retried, coordinate
\* 2 was answered at once
C1_Witness ==
    /\ Len(results) = 2
    /\ Cardinality(ReqIdx(1)) = 2
    /\ Cardinality(ReqIdx(2)) = 1
    /\ log[Min(ReqIdx(2))].status = "ok"

(* C2: when the retry that follows a rate-limited response is itself
   rate-limited or fails, the coordinate's sample is the invalid one
   (congestion_factor None), the coordinate is looked up no third time, and
   the scan goes on: it never stops short of the grid's last coordinate. *)
C2_FailedRetryIsInvalid ==
    /\ \A j \in 1 .. Len(results) :
        LET R == ReqIdx(j) IN
        (Cardinality(R) = 2 /\ log[Max(R)].status \in Failures) =>
            /\ results[j] = InvalidSample(grid[j][1], grid[j][2])
            /\ \A p \in 1 .. Len(log) : log[p].at = j => p <= Max(R) + 1
            /\ j < Len(grid) =>
                   pc \in {"pace", "fetch", "backoff", "retry", "finish"}
                   \/ Completed(j + 1)
    /\ pc \in {"pace", "fetch", "backoff", "retry", "finish"} =>
          i \in 1 .. Len(grid) /\ Len(results) \in {i - 1, i}

\* a retry failed at coordinate 1 and coordinate 2 was sampled all the same
C2_Witness ==
    /\ Len(results) = 2
    /\ Cardinality(ReqIdx(1)) = 2
    /\ log[Max(ReqIdx(1))].status = "rate_limited"
    /\ results[2].congestion_factor # None

(* C3: a coordinate whose lookup ends in a network error or in an HTTP error
   other than 429 is looked up once only, its sample is the invalid one, the
   scan raises nothing, and once the scan has returned every coordinate of
   the grid has been looked up and has its sample. *)
C3_FailureIsLocal ==
    /\ \A j \in 1 .. Len(results) :
        LET R == ReqIdx(j) IN
        (R # {} /\ log[Min(R)].status \in {"net_error", "http_error"}) =>
            /\ Cardinality(R) = 1
            /\ results[j] = InvalidSample(grid[j][1], grid[j][2])
            /\ \A p \in 1 .. Len(log) : log[p].ev = "backoff" => log[p].at # j
    /\ pc = "raised_grid" => log = <<>>
    /\ pc = "raised_stats" => Len(grid) = 0
    /\ ScanReturned =>
        /\ Len(results) = Len(grid)
        /\ \A j \in 1 .. Len(grid) : ReqIdx(j) # {}

\* the first coordinate failed, the run went on to its end and the second
\* coordinate has a valid sample
C3_Witness ==
    /\ pc = "done"
    /\ Len(grid) = 2
    /\ log[1].status \in {"net_error", "http_error"}
    /\ results[2].congestion_factor # None

(* C4: once started, scan_traffic_grid returns, whatever the lookups answer;
   it returns one sample per coordinate of the grid, in the grid's order; and
   the totals main prints add up: valid + failed = the number of coordinates.
   (main prints them for a grid that is not empty.) *)
C4_ScanCompletes ==
    /\ [](ScanReturned =>
            /\ Len(results) = Len(grid)
            /\ \A j \in 1 .. Len(grid) :
                /\ results[j].lat = grid[j][1]
                /\ results[j].lon = grid[j][2])
    /\ [](report # None =>
            /\ Val(report).valid + Val(report).failed = Len(grid)
            /\ Val(report).total = Len(grid)
            /\ Val(report).valid =
                 Cardinality({j \in 1 .. Len(results) :
                                 results[j].congestion_factor # None}))
    /\ (pc = "scan") ~> (ScanReturned /\ (Len(grid) > 0 => report # None))

\* a finished run over two coordinates, one valid and one not
C4_Witness ==
    /\ pc = "done"
    /\ Len(grid) = 2
    /\ report # None
    /\ Val(report).valid = 1
    /\ Val(report).failed = 1
    /\ \E p \in 1 .. Len(log) : log[p].status = "rate_limited"

(* C5: lookups are issued in the grid's order, and never one right after
   another: every lookup that is followed by anything is followed by a sleep,
   the backoff when it was a rate-limited first lookup and the pacing delay
   otherwise, whatever it answered; the lookup after a pacing delay is the
   next coordinate's, the one after a backoff the same coordinate's. *)
C5_DelayBetweenRequests ==
    /\ \A p \in 1 .. Len(log), q \in 1 .. Len(log) :
          (p < q /\ log[p].ev = "request" /\ log[q].ev = "request")
              => log[p].at <= log[q].at
    /\ \A p \in 1 .. Len(log) - 1 :
        /\ log[p].ev = "request" =>
              IF log[p].status = "rate_limited" /\ p = Min(ReqIdx(log[p].at))
              THEN log[p + 1] = BackoffEv(log[p].at)
              ELSE log[p + 1] = PaceEv(log[p].at)
        /\ log[p].ev = "pace" =>
              log[p + 1].ev = "request" /\ log[p + 1].at = log[p].at + 1
        /\ log[p].ev = "backoff" =>
              log[p + 1].ev = "request" /\ log[p + 1].at = log[p].at
    /\ (pc = "fetch" /\ i > 1) => log[Len(log)] = PaceEv(i - 1)
    /\ pc = "retry" => log[Len(log)] = BackoffEv(i)

\* a rate-limited lookup, its failed retry and the next coordinate's lookup,
\* each after a sleep
C5_Witness ==
    /\ Len(log) = 5
    /\ log[1].status = "rate_limited"
    /\ log[2].ev = "backoff"
    /\ log[3].status = "net_error"
    /\ log[4].ev = "pace"
    /\ log[5].ev = "request" /\ log[5].status = "ok"

(* C6: a sample's congestion_factor is present exactly when the lookup's last
   response was a success carrying both speeds with free_flow_speed > 0; a
   valid sample carries those speeds and a number, and any other sample
   carries None and no number at all. *)
C6_PresentIffSpeeds ==
    /\ \A j \in 1 .. Len(results) :
        LET s == results[j] IN
        IF s.congestion_factor # None
        THEN /\ DOMAIN s = {"lat", "lon", "current_speed", "free_flow_speed",
                            "congestion_factor"}
             /\ s.free_flow_speed > 0
             /\ s.current_speed \in Int
             /\ Val(s.congestion_factor).n \in Int
             /\ Val(s.congestion_factor).d > 0
        ELSE s = InvalidSample(grid[j][1], grid[j][2])
    /\ pc = "pace" =>
        LET s == results[Len(results)] IN
        /\ (s.congestion_factor # None) <=>
              /\ resp.status = "ok"
              /\ resp.current_speed # None
              /\ resp.free_flow_speed # None
              /\ Val(resp.free_flow_speed) > 0
        /\ s.congestion_factor # None =>
              /\ s.current_speed = Val(resp.current_speed)
              /\ s.free_flow_speed = Val(resp.free_flow_speed)

\* a sample without free-flow speed beside a genuine zero-congestion reading
C6_Witness ==
    /\ Len(results) = 2
    /\ pc = "pace"
    /\ results[1].congestion_factor = Some(RInt(0))
    /\ results[2].congestion_factor = None
    /\ resp.status = "ok"
    /\ resp.free_flow_speed = Some(0)

(* C7: a valid sample's congestion_factor is 1 - current_speed /
   free_flow_speed clamped to [0, 1]: 0 when current_speed >=
   free_flow_speed, 1 when current_speed <= 0, the fraction
   (free_flow_speed - current_speed) / free_flow_speed in between, and never
   outside [0, 1]. *)
C7_ClampedFactor ==
    \A j \in 1 .. Len(results) :
        LET s == results[j] IN
        s.congestion_factor # None =>
            LET c == Val(s.congestion_factor)
                cs == s.current_speed
                ffs == s.free_flow_speed
            IN  /\ cs >= ffs => c = RInt(0)
                /\ cs <= 0 => c = RInt(1)
                /\ (0 < cs /\ cs < ffs) =>
                       /\ c.n * ffs = (ffs - cs) * c.d
                       /\ c.n > 0 /\ c.n < c.d
                /\ 0 <= c.n /\ c.n <= c.d /\ c.d > 0

\* a sample clamped from above 1 and a sample strictly inside (0, 1)
C7_Witness ==
    /\ Len(results) = 2
    /\ results[1].congestion_factor # None
    /\ results[1].current_speed < 0
    /\ results[2].congestion_factor = Some(Rat(1, 2))
    /\ results[2].current_speed = 1

\* the configuration errors named by the specification: a spacing that is not
\* positive, a bounding box that is empty
ConfigError(c) ==
    \/ RLe(c.spacing, RInt(0))
    \/ RLe(c.lat_max, c.lat_min)
    \/ RLe(c.lon_max, c.lon_min)

(* C8: a configuration error (spacing <= 0, an empty bounding box) is
   rejected before any network call: no lookup is ever issued, and the run
   ends in a rejection (here: the missing-key return or generate_grid
   raising), never in statistics, an output file or a later failure. *)
C8_ConfigErrorRejected ==
    ConfigError(cfg) =>
        /\ \A p \in 1 .. Len(log) : log[p].ev # "request"
        /\ pc \in Terminal => pc \in {"no_key", "raised_grid"}
        /\ report = None
        /\ saved = None

----------------------------------------------------------------------------
(* The interpolation's state, read back *)

SqDist(p, q) ==
    (p[1] - q[1]) * (p[1] - q[1]) + (p[2] - q[2]) * (p[2] - q[2])

\* the rows of traffic_df that carry a congestion factor
ValidIdx == {j \in 1 .. Len(traffic_df) : traffic_df[j].congestion_factor # None}

TreeBuilt == ipc \notin {"idle", "filter"}

(* C9: the tree holds the valid rows of traffic_df and nothing else: a row
   whose congestion_factor is absent is in no answer of the neighbour
   search, whatever its distance, and adds nothing to any interpolated
   value -- each value lies between the least and the greatest congestion
   factor of the valid rows, so no absent value was counted as zero. *)
C9_IndexHoldsValidRowsOnly ==
    TreeBuilt =>
        /\ Len(tree) = Cardinality(ValidIdx)
        /\ \A t \in 1 .. Len(tree) :
            /\ tree[t].congestion_factor # None
            /\ \E j \in ValidIdx : traffic_df[j] = tree[t]
        /\ \A r \in 1 .. Len(query), a \in 1 .. k :
            LET idx == query[r].indices[a] IN
            idx <= Len(tree) =>
                \A j \in 1 .. Len(traffic_df) :
                    traffic_df[j].congestion_factor = None =>
                        RowPos(traffic_df[j]) # RowPos(tree[idx])
        /\ \A r \in 1 .. Len(congestion_levels) :
            /\ \E j \in ValidIdx :
                RLe(Val(traffic_df[j].congestion_factor), congestion_levels[r])
            /\ \E j \in ValidIdx :
                RLe(congestion_levels[r], Val(traffic_df[j].congestion_factor))

\* the row nearest to the road is invalid; the road's value was computed from
\* the two valid rows behind it
C9_Witness ==
    /\ ipc = "done"
    /\ road_coords = << <<0, 0>> >>
    /\ k = 2
    /\ traffic_df[1].congestion_factor = None
    /\ query[1].indices = <<1, 2>>
    /\ tree[1] = traffic_df[2]
    /\ tree[2] = traffic_df[3]

(* C10: every interpolated value is the average of the congestion factors of
   the road's k nearest valid rows, weighted by 1/distance (the distance
   not below the epsilon of line 119) with the weights normalized to sum to
   1.  Factors 1/5, 2/5, 3/5 at distances 1, 2, 4 with k = 3 give the
   weights 4/7, 2/7, 1/7 and the value 11/35 (= 2.2/7). *)
C10_WeightedAverage ==
    \A r \in 1 .. Len(congestion_levels) :
        LET q == query[r]
            pt == road_coords[r]
            cf(a) == Val(tree[q.indices[a]].congestion_factor)
            dc(a) == RMax(q.distances[a], Eps)
            w == IDWWeights(q.distances)
        IN  /\ \A a \in 1 .. k :
                /\ q.indices[a] \in 1 .. Len(tree)
                /\ q.distances[a].d = 1 /\ q.distances[a].n >= 0
                /\ q.distances[a].n * q.distances[a].n
                       = SqDist(pt, RowPos(tree[q.indices[a]]))
                /\ \A b \in 1 .. k : a # b => q.indices[a] # q.indices[b]
                /\ \A t \in 1 .. Len(tree) :
                       (\A b \in 1 .. k : q.indices[b] # t) =>
                           SqDist(pt, RowPos(tree[q.indices[a]]))
                               <= SqDist(pt, RowPos(tree[t]))
            /\ RSum(w) = RInt(1)
            /\ \A a, b \in 1 .. k : RMul(w[a], dc(a)) = RMul(w[b], dc(b))
            /\ RMul(congestion_levels[r],
                    RSum([a \in 1 .. k |-> RDiv(RInt(1), dc(a))]))
                 = RSum([a \in 1 .. k |-> RDiv(cf(a), dc(a))])
            /\ (/\ k = 3
                /\ q.distances = <<RInt(1), RInt(2), RInt(4)>>
                /\ [a \in 1 .. 3 |-> cf(a)] = <<Rat(1, 5), Rat(2, 5), Rat(3, 5)>>)
               => /\ w = <<Rat(4, 7), Rat(2, 7), Rat(1, 7)>>
                  /\ congestion_levels[r] = Rat(11, 35)

\* the specification's example: factors 1/5, 2/5, 3/5 at distances 1, 2, 4
C10_Witness ==
    /\ ipc = "done"
    /\ k = 3
    /\ road_coords = << <<0, 0>> >>
    /\ query[1].distances = <<RInt(1), RInt(2), RInt(4)>>
    /\ [a \in 1 .. 3 |-> tree[query[1].indices[a]].congestion_factor]
         = <<Some(Rat(1, 5)), Some(Rat(2, 5)), Some(Rat(3, 5))>>
    /\ congestion_levels = <<Rat(11, 35)>>

\* the run in which interpolate_traffic_idw has roads to interpolate
Interpolating == TreeBuilt /\ road_coords # <<>>

\* the value the specification asks for a road when fewer than k valid rows
\* exist: the inverse-distance weighted average of all of them
AllRowsAverage(pt) ==
    IDWValue([t \in 1 .. Len(tree) |-> Val(tree[t].congestion_factor)],
             [t \in 1 .. Len(tree) |-> Dist(RowPos(tree[t]), pt)])

(* C11: when at least one but fewer than k valid rows exist, the
   interpolation does not raise, and every road's value is the
   inverse-distance weighted average of all the valid rows. *)
C11_ReducedK ==
    (Interpolating /\ Len(tree) >= 1 /\ Len(tree) < k) =>
        /\ ipc # "raised_index"
        /\ \A r \in 1 .. Len(congestion_levels) :
               congestion_levels[r] = AllRowsAverage(road_coords[r])

(* C12: when no valid row exists, the interpolation completes without
   raising and no road receives a number. *)
C12_ZeroValidAllUnknown ==
    (Interpolating /\ Len(tree) = 0) =>
        /\ ipc # "raised_index"
        /\ congestion_levels = <<>>

\* |a - b|
RAbsDiff(a, b) == IF RLe(a, b) THEN RSub(b, a) ELSE RSub(a, b)

\* the congestion factor of the a-th neighbour of the r-th road
NeighborCF(r, a) == Val(tree[query[r].indices[a]].congestion_factor)

\* the neighbours of the r-th road that lie on its midpoint
Coincident(r) == {a \in 1 .. k : query[r].distances[a] = RInt(0)}

(* C13 as claimed: a road whose midpoint lies on a valid row gets exactly
   that row's congestion factor, whatever its other neighbours are. *)
C13_CoincidentEqualsSample ==
    \A r \in 1 .. Len(congestion_levels) :
        \A a \in Coincident(r) : congestion_levels[r] = NeighborCF(r, a)

(* C13, amended: a road whose midpoint lies on a valid row gets a defined
   number (no division by zero) that differs from that row's congestion
   factor by no more than the sum, over the other neighbours, of
   eps / max(distance, eps) times the difference of the neighbour's factor
   from the row's; it is exactly the row's factor when k = 1 or every
   neighbour carries the same factor. *)
C13_CoincidentWithinEps ==
    \A r \in 1 .. Len(congestion_levels) :
        \A a \in Coincident(r) :
            LET v == congestion_levels[r]
                c0 == NeighborCF(r, a)
                slack == RSum([b \in 1 .. k |->
                            IF b = a THEN RInt(0)
                            ELSE RMul(RDiv(Eps, RMax(query[r].distances[b], Eps)),
                                      RAbsDiff(NeighborCF(r, b), c0))])
            IN  /\ v.d > 0
                /\ RLe(RAbsDiff(v, c0), slack)
                /\ (\A b \in 1 .. k : NeighborCF(r, b) = c0) => v = c0

\* the road at (4, 0) lies on a valid row and has a second neighbour with
\* another factor: its value is close to the row's factor but not equal to it
C13_Witness ==
    /\ ipc = "done"
    /\ k = 2
    /\ road_coords = << <<4, 0>> >>
    /\ Coincident(1) = {1}
    /\ NeighborCF(1, 1) = Rat(1, 5)
    /\ NeighborCF(1, 2) = Rat(3, 5)
    /\ congestion_levels[1] # Rat(1, 5)
    /\ RLt(Rat(1, 5), congestion_levels[1])
    /\ RLt(congestion_levels[1], Rat(201, 1000))

(* C14: a road whose k nearest valid rows all lie at the same distance gets
   the arithmetic mean of their congestion factors: k times the value is
   the sum of the k factors. *)
C14_EqualDistanceMean ==
    \A r \in 1 .. Len(congestion_levels) :
        (\A a, b \in 1 .. k : query[r].distances[a] = query[r].distances[b]) =>
            RMul(RInt(k), congestion_levels[r])
                = RSum([a \in 1 .. k |-> NeighborCF(r, a)])

\* the road at (4, 0) with its two nearest valid rows, (1, 0) and (4, 3),
\* both three units away and carrying different factors
C14_Witness ==
    /\ ipc = "done"
    /\ k = 2
    /\ road_coords = << <<4, 0>> >>
    /\ query[1].distances = <<RInt(3), RInt(3)>>
    /\ {NeighborCF(1, 1), NeighborCF(1, 2)} = {Rat(1, 5), Rat(3, 5)}
    /\ congestion_levels = <<Rat(2, 5)>>

(* C15: every value of the base field lies in [0, 1], and more precisely
   between the least and the greatest congestion factor of the k
   neighbours it was computed from.  (The function never yields an unknown
   value: each road it returns carries a number.) *)
C15_ValueWithinNeighbours ==
    \A r \in 1 .. Len(congestion_levels) :
        LET v == congestion_levels[r] IN
        /\ v.d > 0
        /\ RLe(RInt(0), v) /\ RLe(v, RInt(1))
        /\ \E a \in 1 .. k :
              /\ RLe(NeighborCF(r, a), v)
              /\ \A b \in 1 .. k : RLe(NeighborCF(r, a), NeighborCF(r, b))
        /\ \E a \in 1 .. k :
              /\ RLe(v, NeighborCF(r, a))
              /\ \A b \in 1 .. k : RLe(NeighborCF(r, b), NeighborCF(r, a))

\* two roads interpolated from three rows with factors 3/5, 1/5, 2/5: both
\* values lie strictly between 1/5 and 3/5
C15_Witness ==
    /\ ipc = "done"
    /\ k = 3
    /\ Len(congestion_levels) = 2
    /\ [a \in 1 .. 3 |-> NeighborCF(1, a)] = <<Rat(3, 5), Rat(1, 5), Rat(2, 5)>>
    /\ \A r \in 1 .. 2 :
          /\ RLt(Rat(1, 5), congestion_levels[r])
          /\ RLt(congestion_levels[r], Rat(3, 5))

----------------------------------------------------------------------------
(* The hourly snapshots, read back *)

\* the base field: the congestion_level column the function was called with
BaseField == roads_gdf0.congestion_level

\* the field of hour h, once it has been produced
HourField(h) == snapshots[h + 1].congestion_level

\* the hours whose field has been produced
HoursDone == {h \in 0 .. HOURS - 1 : h + 1 <= Len(snapshots)}

\* the specification's ceiling of an hourly value, at its default 1.0
Ceiling == RInt(1)

RClamp(x, lo, hi) == RMax(lo, RMin(x, hi))

(* C16: the synthesis yields exactly 24 fields, one per hour 0 .. 23, and
   for every hour and every road with a known base level the hourly level
   is clamp(base * multiplier(hour), 0, ceiling): no hourly level exceeds
   the ceiling 1.0. *)
C16_HourlyClamped ==
    /\ tpc = "done" => Len(snapshots) = HOURS
    /\ \A h \in HoursDone, t \in 1 .. Len(BaseField) :
          BaseField[t] # None =>
              /\ HourField(h)[t] =
                    Some(RClamp(RMul(Val(BaseField[t]), get_time_multiplier(h)),
                                RInt(0), Ceiling))
              /\ RLe(Val(HourField(h)[t]), Ceiling)

\* the multiplier curve as the claim states it: [6, 9) is the morning rush
ClaimedCurve(h) ==
    CASE h \in 3 .. 5 -> Rat(3, 10)
      [] h \in 6 .. 8 -> RInt(2)
      [] h = 9 -> Rat(3, 2)
      [] h \in 10 .. 15 -> RInt(1)
      [] h = 16 -> Rat(3, 2)
      [] h \in 17 .. 19 -> Rat(5, 2)
      [] h \in 20 .. 22 -> Rat(6, 5)
      [] h = 23 \/ h \in 0 .. 2 -> Rat(1, 2)

\* the curve with the morning rush beginning at 7: hour 6 has the multiplier 1
AmendedCurve(h) ==
    CASE h \in 3 .. 5 -> Rat(3, 10)
      [] h = 6 -> RInt(1)
      [] h \in 7 .. 8 -> RInt(2)
      [] h = 9 -> Rat(3, 2)
      [] h \in 10 .. 15 -> RInt(1)
      [] h = 16 -> Rat(3, 2)
      [] h \in 17 .. 19 -> Rat(5, 2)
      [] h \in 20 .. 22 -> Rat(6, 5)
      [] h = 23 \/ h \in 0 .. 2 -> Rat(1, 2)

\* the loop has reached an hour and holds its multiplier
InHour == hour \in 0 .. HOURS - 1

(* C17 as claimed: the multiplier of every hour 0 .. 23 is the step function
   [3,6)=0.3, [6,9)=2.0, [9,10)=1.5, [10,16)=1.0, [16,17)=1.5, [17,20)=2.5,
   [20,23)=1.2 and 0.5 for 23 and [0,3); hours 6, 7 and 8 get 2.0 and every
   multiplier lies in 0.3 .. 2.5. *)
C17_StepCurve ==
    InHour =>
        /\ multiplier = ClaimedCurve(hour)
        /\ hour \in 6 .. 8 => multiplier = RInt(2)
        /\ RLe(Rat(3, 10), multiplier) /\ RLe(multiplier, Rat(5, 2))

(* C17, amended: the multiplier of every hour 0 .. 23 is the step function
   [3,6)=0.3, [6,7)=1.0, [7,9)=2.0, [9,10)=1.5, [10,16)=1.0, [16,17)=1.5,
   [17,20)=2.5, [20,23)=1.2 and 0.5 for 23 and [0,3); hours 7 and 8 get 2.0,
   hour 6 gets 1.0, and every multiplier lies in 0.3 .. 2.5. *)
C17_StepCurveFromSeven ==
    InHour =>
        /\ multiplier = AmendedCurve(hour)
        /\ hour \in 7 .. 8 => multiplier = RInt(2)
        /\ hour = 6 => multiplier = RInt(1)
        /\ RLe(Rat(3, 10), multiplier) /\ RLe(multiplier, Rat(5, 2))

\* the loop stands in hour 6 with the multiplier 1, hour 5's field with its
\* multiplier 0.3 behind it
C17_Witness ==
    /\ tpc = "body"
    /\ hour = 6
    /\ multiplier = RInt(1)
    /\ BaseField[1] = Some(RInt(1))
    /\ HourField(5)[1] = Some(Rat(3, 10))

(* C18: a road whose base level is unknown is unknown in every hourly field,
   and a road whose base level is known is known in every hourly field; the
   function returns with all 24 fields. *)
C18_UnknownStaysUnknown ==
    /\ \A h \in HoursDone :
          /\ Len(HourField(h)) = Len(BaseField)
          /\ \A t \in 1 .. Len(BaseField) :
                (BaseField[t] = None) <=> (HourField(h)[t] = None)
    /\ tpc = "done" => HoursDone = 0 .. HOURS - 1

\* the function has returned for a frame whose first road is unknown and
\* whose second road is known
C18_Witness ==
    /\ tpc = "done"
    /\ BaseField[1] = None
    /\ BaseField[2] = Some(Rat(3, 5))
    /\ HourField(17)[1] = None
    /\ HourField(17)[2] = Some(Rat(3, 2))

(* C19: generating the snapshots leaves the base field as it was: at every
   step and after the return the argument's frame has the columns it had at
   the call.  Each hour's field lives in a frame of its own, which is
   neither the argument's frame nor the frame of another hour, and which
   later hours leave as it was written. *)
C19_BaseFieldUntouched ==
    /\ frames[roads_gdf] = roads_gdf0
    /\ tpc \notin {"begin"} => base_congestion = BaseField
    /\ Len(frames) = 1 + Len(snapshots)
    /\ roads_gdf_hour # roads_gdf
    /\ Len(snapshots) > 0 => roads_gdf_hour = Len(frames)
    /\ \A h \in HoursDone :
          /\ frames[h + 2].congestion_level = HourField(h)
          /\ frames[h + 2].color = Some(snapshots[h + 1].color)

\* the function has returned; hour 17's field differs from the base field,
\* which the argument's frame still carries
C19_Witness ==
    /\ tpc = "done"
    /\ frames[roads_gdf].congestion_level[1] = Some(Rat(1, 5))
    /\ frames[roads_gdf].color = None
    /\ frames[19].congestion_level[1] = Some(Rat(1, 2))
    /\ frames[14].congestion_level[1] = Some(Rat(1, 5))

(* C20: hour 12 has the multiplier 1, and its field is the base field: every
   road whose base level is unknown or does not exceed the ceiling has, in
   the field of hour 12, exactly its base level. *)
C20_NoonIsBase ==
    /\ (InHour /\ hour = 12) => multiplier = RInt(1)
    /\ 12 \in HoursDone =>
          \A t \in 1 .. Len(BaseField) :
              (BaseField[t] = None \/ RLe(Val(BaseField[t]), Ceiling)) =>
                  HourField(12)[t] = BaseField[t]

\* the function has returned; the field of hour 12 is the base field, which
\* the field of hour 9 is not
C20_Witness ==
    /\ tpc = "done"
    /\ BaseField[1] = Some(Rat(3, 5))
    /\ BaseField[2] = None
    /\ HourField(12) = BaseField
    /\ HourField(9) # BaseField

----------------------------------------------------------------------------
(* The grid, read back *)

\* generate_grid has returned a grid
GridReturned == pc = "scan"

\* the box and the spacing generate_grid was called with
ArgBox == PyBox(cfg)
ArgSpacing == PyFloat(cfg.spacing)

\* a configuration that is no error: a positive spacing, a box that is not empty
ValidConfig == ~ConfigError(cfg)

\* x is start + i * step for an i of 0 .. n, give or take a quarter of a step
NearLattice(x, start, step, n) ==
    \E a \in 0 .. n :
        RLe(RAbsDiff(x, RAdd(start, RMul(RInt(a), step))),
            RMul(Rat(1, 4), step))

(* C21: for a valid configuration, every coordinate of the grid lies in the
   half-open box, lat_min <= lat < lat_max and lon_min <= lon < lon_max, and
   is lat_min + i * spacing, lon_min + j * spacing for non-negative integers
   i, j (up to the rounding of the floats). *)
C21_InsideHalfOpenBox ==
    (GridReturned /\ ValidConfig) =>
        \A j \in 1 .. Len(grid) :
            /\ RLe(ArgBox.lat_min, grid[j][1])
            /\ RLt(grid[j][1], ArgBox.lat_max)
            /\ RLe(ArgBox.lon_min, grid[j][2])
            /\ RLt(grid[j][2], ArgBox.lon_max)
            /\ NearLattice(grid[j][1], ArgBox.lat_min, ArgSpacing, Len(grid))
            /\ NearLattice(grid[j][2], ArgBox.lon_min, ArgSpacing, Len(grid))

\* the extent of the configured box along each axis, counted in spacings
LatSteps == Ceil(RDiv(RSub(cfg.lat_max, cfg.lat_min), cfg.spacing))
LonSteps == Ceil(RDiv(RSub(cfg.lon_max, cfg.lon_min), cfg.spacing))

(* C22: for a non-empty box and a positive spacing, the grid has
   ceil(lat_extent / spacing) * ceil(lon_extent / spacing) coordinates. *)
C22_CountIsCeilProduct ==
    (GridReturned /\ ValidConfig) => Len(grid) = LatSteps * LonSteps

\* the grid is m rows of n columns: a row shares its latitude, a column its
\* longitude, latitudes grow from row to row and longitudes along a row
RowMajor(m, n) ==
    /\ Len(grid) = m * n
    /\ \A r \in 0 .. m - 1 : \A c \in 0 .. n - 1 :
           /\ grid[r * n + c + 1][1] = grid[r * n + 1][1]
           /\ grid[r * n + c + 1][2] = grid[c + 1][2]
    /\ \A r \in 1 .. m - 1 : RLt(grid[(r - 1) * n + 1][1], grid[r * n + 1][1])
    /\ \A c \in 1 .. n - 1 : RLt(grid[c][2], grid[c + 1][2])

(* C23: for a valid configuration the grid is in row-major order, the
   latitude in the outer loop and the longitude in the inner one, both
   increasing and starting at (lat_min, lon_min), and no coordinate occurs
   twice. *)
C23_RowMajorNoDuplicates ==
    (GridReturned /\ ValidConfig) =>
        /\ \E m \in 1 .. Len(grid) : \E n \in 1 .. Len(grid) : RowMajor(m, n)
        /\ grid[1] = <<ArgBox.lat_min, ArgBox.lon_min>>
        /\ \A a \in 1 .. Len(grid) : \A b \in 1 .. Len(grid) :
               grid[a] = grid[b] => a = b

\* a valid configuration gave a grid of several rows and several columns
C23_Witness ==
    /\ GridReturned
    /\ ValidConfig
    /\ Len(grid) >= 6
    /\ grid[1][1] # grid[Len(grid)][1]
    /\ grid[1][2] # grid[Len(grid)][2]
    /\ grid[1][1] = grid[3][1]

(* C24: a spacing that is zero or negative is an error: generate_grid never
   returns a grid for it. *)
C24_NonPositiveSpacingRejected ==
    RLe(cfg.spacing, RInt(0)) => ~GridReturned

----------------------------------------------------------------------------
(* The colours, read back *)

\* the gradient mapper was called, and on a number
GradientCalled == gradient_color # NoColor
Known == arg_congestion # None

\* the number it was called on, and that number normalized
Level == Val(arg_congestion)
Normalized == Normalize(Level, arg_max_congestion)

\* '#0000ff', '#00ffff', '#ffff00', '#ff0000'
Blue == <<0, 0, 0, 0, 15, 15>>
Cyan == <<0, 0, 15, 15, 15, 15>>
Yellow == <<15, 15, 15, 15, 0, 0>>
Red == <<15, 15, 0, 0, 0, 0>>

\* '#rrggbb' is well formed: six characters after the '#', all of them digits
WellFormed(color) == Len(color) = 6 /\ \A j \in 1 .. 6 : color[j] \in 0 .. 15

\* the channels of a well-formed colour
RedOf(color) == 16 * color[1] + color[2]
GreenOf(color) == 16 * color[3] + color[4]
BlueOf(color) == 16 * color[5] + color[6]

(* C25 as claimed: the gradient mapper returns pure blue at the normalized
   value 0, pure cyan at 1/3, pure yellow at 2/3 and pure red at 1, and
   '#666666' for an unknown value. *)
C25_BoundaryColoursAtThirds ==
    GradientCalled =>
        IF ~Known THEN gradient_color = Neutral
        ELSE /\ Normalized = RInt(0) => gradient_color = Blue
             /\ Normalized = Rat(1, 3) => gradient_color = Cyan
             /\ Normalized = Rat(2, 3) => gradient_color = Yellow
             /\ Normalized = RInt(1) => gradient_color = Red

(* C25, amended: the gradient mapper returns pure blue at the normalized
   value 0, pure cyan at 0.33, pure yellow at 0.66 and pure red at 1, and
   '#666666' for an unknown value. *)
C25_BoundaryColoursAtBreakpoints ==
    GradientCalled =>
        IF ~Known THEN gradient_color = Neutral
        ELSE /\ Normalized = RInt(0) => gradient_color = Blue
             /\ Normalized = Rat(33, 100) => gradient_color = Cyan
             /\ Normalized = Rat(66, 100) => gradient_color = Yellow
             /\ Normalized = RInt(1) => gradient_color = Red

\* the mapper was called at the breakpoint 0.66 and returned pure yellow
C25_Witness ==
    /\ GradientCalled
    /\ Known
    /\ Normalized = Rat(66, 100)
    /\ gradient_color = Yellow

(* C26: a known value is normalized as value / max_congestion, clamped to 1:
   every value >= max_congestion maps to pure red, the colour of
   max_congestion itself, and a value with the same ratio to another ceiling
   maps to the same colour. *)
C26_NormalizedAgainstCeiling ==
    (GradientCalled /\ Known) =>
        /\ RLe(arg_max_congestion, Level) =>
               /\ gradient_color = Red
               /\ gradient_color =
                      get_smooth_gradient_color(Some(arg_max_congestion),
                                                arg_max_congestion)
        /\ \A m \in ColorCeilings :
               get_smooth_gradient_color(
                   Some(RMul(RDiv(Level, arg_max_congestion), m)), m)
                   = gradient_color

\* the mapper was called on a value above its ceiling and returned pure red
C26_Witness ==
    /\ GradientCalled
    /\ Known
    /\ RLt(arg_max_congestion, Level)
    /\ arg_max_congestion = DefaultMaxCongestion
    /\ gradient_color = Red

(* C27: the single map and the hourly snapshots colour a value alike: the
   colour get_traffic_color gives a congestion value of [0, 1] (or NaN) is
   the colour get_smooth_gradient_color gives it with the snapshots'
   ceiling. *)
C27_SameColourInBothMaps ==
    (dense_color # NoColor /\ GradientCalled
        /\ arg_max_congestion = DefaultMaxCongestion
        /\ (Known => RLe(RInt(0), Level) /\ RLe(Level, RInt(1)))) =>
        dense_color = gradient_color

\* the channels of the next level, one 300th higher
NextColor ==
    get_smooth_gradient_color(Some(RAdd(Level, Rat(1, 300))), arg_max_congestion)
NextNormalized == Normalize(RAdd(Level, Rat(1, 300)), arg_max_congestion)

\* the three segments end at lo and hi: what each holds fixed, and what rises
\* or falls from a level to the next one
Segments(lo, hi) ==
    /\ RLt(Normalized, lo) =>
           RedOf(gradient_color) = 0 /\ BlueOf(gradient_color) = 255
    /\ (RLe(lo, Normalized) /\ RLt(Normalized, hi)) =>
           GreenOf(gradient_color) = 255
    /\ RLe(hi, Normalized) =>
           RedOf(gradient_color) = 255 /\ BlueOf(gradient_color) = 0
    /\ RedOf(gradient_color) <= RedOf(NextColor)
    /\ BlueOf(gradient_color) >= BlueOf(NextColor)
    /\ RLe(NextNormalized, lo) => GreenOf(gradient_color) <= GreenOf(NextColor)
    /\ RLe(hi, Normalized) => GreenOf(gradient_color) >= GreenOf(NextColor)

(* C28 as claimed: the gradient has three segments, each an equal third of
   the normalized range: on the first, red is 0 and blue 255 while green
   rises; on the second, green is 255 while red rises and blue falls; on the
   third, red is 255 and blue 0 while green falls; red never decreases and
   blue never increases as the value grows. *)
C28_EqualThirds ==
    (GradientCalled /\ Known /\ RLe(RInt(0), Level)) =>
        Segments(Rat(1, 3), Rat(2, 3))

(* C28, amended: the gradient has three segments, [0, 0.33), [0.33, 0.66) and
   [0.66, 1] of the normalized range: on the first, red is 0 and blue 255
   while green rises; on the second, green is 255 while red rises and blue
   falls; on the third, red is 255 and blue 0 while green falls; red never
   decreases and blue never increases as the value grows. *)
C28_ThreeSegments ==
    (GradientCalled /\ Known /\ RLe(RInt(0), Level)) =>
        Segments(Rat(33, 100), Rat(66, 100))

\* the mapper was called inside the middle segment, where red and blue are
\* both strictly between 0 and 255
C28_Witness ==
    /\ GradientCalled
    /\ Known
    /\ Normalized = Rat(1, 2)
    /\ RedOf(gradient_color) \in 1 .. 254
    /\ BlueOf(gradient_color) \in 1 .. 254
    /\ GreenOf(gradient_color) = 255

(* C29: for a known value >= 0 and a ceiling > 0 the three channels are
   integers of 0 .. 255, so that the colour is '#' and six hexadecimal
   digits. *)
C29_ChannelsInRange ==
    (GradientCalled /\ Known /\ RLe(RInt(0), Level)
        /\ RLt(RInt(0), arg_max_congestion)) =>
        WellFormed(gradient_color)

\* the mapper was called on a value of the last segment, below the ceiling
C29_Witness ==
    /\ GradientCalled
    /\ Known
    /\ RLt(Rat(66, 100), Normalized)
    /\ RLt(Level, arg_max_congestion)
    /\ WellFormed(gradient_color)
    /\ GreenOf(gradient_color) \in 1 .. 254

----------------------------------------------------------------------------
(* The collection, read back *)

\* collect_all_roads is over: it has returned, or an exception has left it
CollOver == kpc \in {"done", "raised"}

\* the points whose fetch returned data
WithData == {fetched[j].point : j \in {a \in 1 .. Len(fetched) : fetched[a].data}}

(* C30: when collect_all_roads is over, whatever the fetches and the saves
   did: every configured point was fetched exactly once, in order; a segment
   and a traffic record were saved only for a point whose fetch returned
   data, the segment before the record; and the summary was printed with
   roads_collected equal to the number of points whose fetch returned
   data. *)
C30_EveryPointFetchedOnce ==
    CollOver =>
        /\ Len(fetched) = self_roads
        /\ \A j \in 1 .. Len(fetched) : fetched[j].point = j
        /\ \A j \in 1 .. Len(database) :
               /\ database[j].point \in WithData
               /\ database[j].table = "traffic_data" =>
                      /\ j > 1
                      /\ database[j - 1].table = "road_segments"
                      /\ database[j - 1].point = database[j].point
        /\ summary = Some(Cardinality(WithData))
        /\ roads_collected \in 0 .. self_roads

====
